---------------------------- MODULE Spec2Model ----------------------------
(***************************************************************************)
(* A model of the SwarmRL interaction-model layer:                         *)
(*   - swarmrl/models/bechinger_models.py : get_colloids_in_vision,        *)
(*     Lavergne2019, Baeuerle2020, angle_from_vector, vector_from_angle    *)
(*   - swarmrl/models/ml_model.py : MLModel.calc_action                    *)
(*   - the engine (EspressoMD.integrate) and HarmonicTrap, as far as the   *)
(*     tests under CI/ fix their behaviour.                                *)
(*                                                                         *)
(* Numbers.  The code works on floats; the model works on exact values:    *)
(*   - positions and directors are integer 3-vectors (directors are unit   *)
(*     vectors along an axis, as the engine hands them out);               *)
(*   - a vector result is  (x, y, z) / sqrt(d2)  and is kept as the record *)
(*     [nan, x, y, z, d2];  nan is what numpy's 0/0 produces;              *)
(*   - the argument of np.arccos is  num / sqrt(den2)  and is kept as the  *)
(*     record [nan, num, den2];                                            *)
(*   - an angle threshold (vision_half_angle) is kept by its cosine, again *)
(*     as num / sqrt(den2);  arccos is strictly decreasing on [-1, 1], so  *)
(*     arccos(c) < theta  iff  c > cos(theta)  for theta in [0, pi];       *)
(*   - an angle in the xy plane (np.arctan2) is kept as a non-zero integer *)
(*     ray <<a, b>> with angle atan2(b, a);  adding an angle multiplies    *)
(*     the rays as complex numbers.                                        *)
(***************************************************************************)
EXTENDS Integers, Sequences, FiniteSets, TLC

VARIABLES
    pc,              \* "ready" before the call, "returned" after it
    op,              \* name of the operation that ran (or "none")
    self,            \* constructor / call parameters of the operation that ran
    colloid,         \* the observing colloid handed to the bechinger models
    other_colloids,  \* the list of other colloids handed to the bechinger models
    result,          \* value returned by the operation
    colloids,        \* the colloid list (MLModel.calc_action) or batch (HarmonicTrap)
    actions,         \* the local list `actions` of MLModel.calc_action
    cursor,          \* index of the colloid the for loop of calc_action is at
    calls,           \* the calls of observable.compute_observable made so far
    sampled,         \* the action indices drawn from the Categorical so far
    runner,          \* the EspressoMD object: system time, particles, trajectory
    harness          \* the integrate call in progress and what its caller observed

sceneVars == <<colloid, other_colloids>>

mlVars == <<colloids, actions, cursor, calls, sampled>>

mdVars == <<runner, harness>>

vars == <<pc, op, self, result, sceneVars, mlVars, mdVars>>

---------------------------------------------------------------------------
(* Bounds of the model *)

\* largest number of entries of other_colloids
MaxOthers == 2

\* largest number of colloids handed to MLModel.calc_action or HarmonicTrap
MaxColloids == 3

\* largest number of time slices integrated by one runner
MaxSlices == 5

\* resolution of the perception sum: perception is kept in units of
\* 1 / (2 * pi * PScale)
PScale == 100

---------------------------------------------------------------------------
(* Vectors and exact comparison of  n / sqrt(d)  values *)

Dot(u, v) == u[1] * v[1] + u[2] * v[2] + u[3] * v[3]

Sub(u, v) == <<u[1] - v[1], u[2] - v[2], u[3] - v[3]>>

Add(u, v) == <<u[1] + v[1], u[2] + v[2], u[3] + v[3]>>

Norm2(v) == Dot(v, v)

\* n1 / sqrt(d1) > n2 / sqrt(d2), for d1, d2 > 0
RootGT(n1, d1, n2, d2) ==
    IF n1 >= 0 /\ n2 >= 0 THEN n1 * n1 * d2 > n2 * n2 * d1
    ELSE IF n1 >= 0 THEN TRUE
    ELSE IF n2 >= 0 THEN FALSE
    ELSE n1 * n1 * d2 < n2 * n2 * d1

\* floor(sqrt(v)) for v in 0 .. PScale * PScale
ISqrt(v) == CHOOSE r \in 0 .. PScale : r * r <= v /\ v < (r + 1) * (r + 1)

\* the zero vector np.zeros((3,))
Zeros3 == [nan |-> FALSE, x |-> 0, y |-> 0, z |-> 0, d2 |-> 1]

\* two vector results denote the same real vector
SameVec(v, w) ==
    /\ v.nan = w.nan
    /\ ~v.nan =>
          /\ v.x * w.y = v.y * w.x
          /\ v.x * w.z = v.z * w.x
          /\ v.y * w.z = v.z * w.y
          /\ v.x * w.x >= 0 /\ v.y * w.y >= 0 /\ v.z * w.z >= 0
          /\ (v.x * v.x + v.y * v.y + v.z * v.z) * w.d2
                = (w.x * w.x + w.y * w.y + w.z * w.z) * v.d2

\* squared length of a vector result times its denominator: |v|^2 = Len2(v) / v.d2
Len2(v) == v.x * v.x + v.y * v.y + v.z * v.z

---------------------------------------------------------------------------
(* Angles *)

\* np.inf, the default vision_range
Inf == 1000

\* cosines of the vision half angles used:  pi/4, pi/2, 3pi/4, pi
PiQuarter == [num |-> 1, den2 |-> 2]
PiHalf == [num |-> 0, den2 |-> 1]
ThreePiQuarter == [num |-> -1, den2 |-> 2]
Pi == [num |-> -1, den2 |-> 1]

HalfAngles == {PiQuarter, PiHalf, ThreePiQuarter, Pi}

\* np.arccos(c) < theta;  arccos of nan or of a value outside [-1, 1] is nan,
\* and a comparison with nan is False
ArccosLess(c, theta) ==
    /\ ~c.nan
    /\ c.num * c.num <= c.den2
    /\ RootGT(c.num, c.den2, theta.num, theta.den2)

\* the range test with the boundary included
NormLessOrEqual(d2, vision_range) == vision_range = Inf \/ d2 <= vision_range * vision_range

\* dist_norm < vision_range
NormLess(d2, vision_range) == vision_range = Inf \/ d2 < vision_range * vision_range

\* np.dot(dist / dist_norm, my_director);  0 / 0 is nan
DotOfNormalised(dist, my_director) ==
    [nan |-> Norm2(dist) = 0, num |-> Dot(dist, my_director), den2 |-> Norm2(dist)]

\* body of the loop of get_colloids_in_vision for one other_p
InVision(coll, other_p, vision_half_angle, vision_range) ==
    LET dist == Sub(other_p.pos, coll.pos)
        in_range == NormLess(Norm2(dist), vision_range)
        in_front == ArccosLess(DotOfNormalised(dist, coll.director), vision_half_angle)
    IN  in_front /\ in_range

RECURSIVE VisionLoop(_, _, _, _, _, _)
VisionLoop(coll, other_coll, vision_half_angle, vision_range, k, colls_in_vision) ==
    IF k > Len(other_coll) THEN colls_in_vision
    ELSE VisionLoop(coll, other_coll, vision_half_angle, vision_range, k + 1,
                    IF InVision(coll, other_coll[k], vision_half_angle, vision_range)
                    THEN Append(colls_in_vision, other_coll[k])
                    ELSE colls_in_vision)

get_colloids_in_vision(coll, other_coll, vision_half_angle, vision_range) ==
    VisionLoop(coll, other_coll, vision_half_angle, vision_range, 1, <<>>)

---------------------------------------------------------------------------
(* The scenes the bechinger models are called on *)

ObserverPositions == {<<0, 0, 0>>, <<1, 0, 0>>}
ObserverDirectors == {<<1, 0, 0>>, <<0, 1, 0>>}

OtherPositions ==
    {<<1, 0, 0>>, <<2, 0, 0>>, <<0, 1, 0>>, <<1, 1, 0>>, <<-1, 0, 0>>}
OtherDirectors == {<<1, 0, 0>>, <<-1, 0, 0>>}

\* a list of distinct colloid objects: entry k is the object with id k
OtherLists ==
    UNION {{[k \in 1 .. n |-> [id |-> k, pos |-> p[k], director |-> d[k]]] :
                p \in [1 .. n -> OtherPositions], d \in [1 .. n -> OtherDirectors]} :
           n \in 0 .. MaxOthers}

Observers == {[id |-> 0, pos |-> p, director |-> d] :
                 p \in ObserverPositions, d \in ObserverDirectors}

VisionRanges == {1, 2, Inf}

SceneInit ==
    /\ pc = "ready"
    /\ op = "none"
    /\ self = <<>>
    /\ colloid \in Observers
    /\ other_colloids \in OtherLists
    /\ result = <<>>
    /\ colloids = <<>> /\ actions = <<>> /\ cursor = 0 /\ calls = <<>> /\ sampled = <<>>
    /\ runner = <<>> /\ harness = <<>>

---------------------------------------------------------------------------
(* get_colloids_in_vision as an operation *)

CallGetColloidsInVision ==
    /\ pc = "ready"
    /\ \E ha \in HalfAngles, vr \in VisionRanges :
          /\ self' = [vision_half_angle |-> ha, vision_range |-> vr]
          /\ result' = get_colloids_in_vision(colloid, other_colloids, ha, vr)
    /\ op' = "get_colloids_in_vision"
    /\ pc' = "returned"
    /\ UNCHANGED <<sceneVars, mlVars, mdVars>>

VisionNext == CallGetColloidsInVision

VisionSpec == SceneInit /\ [][VisionNext]_vars

---------------------------------------------------------------------------
(* Lavergne2019 *)

\* 1 / (2 * np.pi * dist), in units of 1 / (2 * pi * PScale), rounded down
PerceptionTerm(d2) == ISqrt((PScale * PScale) \div d2)

RECURSIVE PerceptionLoop(_, _, _, _)
PerceptionLoop(my_pos, colls_in_vision, k, perception) ==
    IF k > Len(colls_in_vision) THEN perception
    ELSE PerceptionLoop(my_pos, colls_in_vision, k + 1,
                        perception + PerceptionTerm(Norm2(Sub(my_pos, colls_in_vision[k].pos))))

\* act_force * my_director / np.linalg.norm(my_director)
ScaledDirector(act_force, my_director) ==
    [nan |-> Norm2(my_director) = 0,
     x |-> act_force * my_director[1],
     y |-> act_force * my_director[2],
     z |-> act_force * my_director[3],
     d2 |-> Norm2(my_director)]

\* the activity switch with a strict comparison
ActiveStrict(perception, perception_threshold) == perception > perception_threshold

\* the activity switch of Lavergne2019.calc_force
Active(perception, perception_threshold) == perception >= perception_threshold

Lavergne2019_calc_force(slf, coll, other_coll) ==
    LET colls_in_vision == get_colloids_in_vision(coll, other_coll, slf.vision_half_angle, Inf)
        perception == PerceptionLoop(coll.pos, colls_in_vision, 1, 0)
    IN  IF Active(perception, slf.perception_threshold)
        THEN ScaledDirector(slf.act_force, coll.director)
        ELSE Zeros3

ActForces == {0, 2}

\* perception thresholds, in units of 1 / (2 * pi * PScale)
Thresholds == {0, PScale \div 2, PScale, PScale + PScale \div 2}

ConeAngles == {PiHalf, Pi}

CallLavergneCalcForce ==
    /\ pc = "ready"
    /\ \E ha \in ConeAngles, f \in ActForces, th \in Thresholds :
          /\ self' = [vision_half_angle |-> ha, act_force |-> f, perception_threshold |-> th]
          /\ result' = Lavergne2019_calc_force(self', colloid, other_colloids)
    /\ op' = "Lavergne2019.calc_force"
    /\ pc' = "returned"
    /\ UNCHANGED <<sceneVars, mlVars, mdVars>>

---------------------------------------------------------------------------
(* Baeuerle2020 *)

\* np.arctan2(vec[1], vec[0]) of the vector vec.v / vec.n (n > 0), as a ray;
\* arctan2(0, 0) is 0
angle_from_vector(vec) ==
    IF vec.v[1] = 0 /\ vec.v[2] = 0 THEN <<1, 0>> ELSE <<vec.v[1], vec.v[2]>>

\* np.array([np.cos(angle), np.sin(angle), 0])
vector_from_angle(angle) ==
    [nan |-> FALSE, x |-> angle[1], y |-> angle[2], z |-> 0,
     d2 |-> angle[1] * angle[1] + angle[2] * angle[2]]

\* angle + deviation and angle - deviation, on rays
AnglePlus(angle, dev) ==
    <<angle[1] * dev[1] - angle[2] * dev[2], angle[1] * dev[2] + angle[2] * dev[1]>>

AngleMinus(angle, dev) ==
    <<angle[1] * dev[1] + angle[2] * dev[2], angle[2] * dev[1] - angle[1] * dev[2]>>

RECURSIVE SumOf(_, _, _)
SumOf(colls, field, k) ==
    IF k > Len(colls) THEN <<0, 0, 0>>
    ELSE Add(IF field = "pos" THEN colls[k].pos ELSE colls[k].director,
             SumOf(colls, field, k + 1))

\* np.mean(np.stack([...], axis=1), axis=1): the vector v / n
MeanOf(colls, field) == [v |-> SumOf(colls, field, 1), n |-> Len(colls)]

\* com - colloid.pos, again as v / n
ToCom(com, pos) ==
    [v |-> <<com.v[1] - com.n * pos[1], com.v[2] - com.n * pos[2], com.v[3] - com.n * pos[3]>>,
     n |-> com.n]

\* mean_orientation_in_vision /= np.linalg.norm(mean_orientation_in_vision)
NormaliseMean(m) ==
    [nan |-> Norm2(m.v) = 0, x |-> m.v[1], y |-> m.v[2], z |-> m.v[3], d2 |-> Norm2(m.v)]

\* np.dot of two vector results, as the argument of np.arccos
DotVec(a, b) ==
    [nan |-> a.nan \/ b.nan,
     num |-> a.x * b.x + a.y * b.y + a.z * b.z,
     den2 |-> a.d2 * b.d2]

\* np.arccos(c) is nan
ArccosNan(c) == c.nan \/ c.num * c.num > c.den2

\* an argmin that resolves a tie to the last entry
ArgMin2Last(c0, c1) ==
    IF ArccosNan(c1) THEN 1
    ELSE IF ArccosNan(c0) THEN 0
    ELSE IF RootGT(c0.num, c0.den2, c1.num, c1.den2) THEN 0
    ELSE 1

\* np.argmin([np.arccos(c0), np.arccos(c1)]): the first minimum, a nan counting
\* as the minimum
ArgMin2(c0, c1) ==
    IF ArccosNan(c0) THEN 0
    ELSE IF ArccosNan(c1) THEN 1
    ELSE IF RootGT(c1.num, c1.den2, c0.num, c0.den2) THEN 1
    ELSE 0

\* an emptiness test that never fires
NeverEmpty(colls) == FALSE

\* len(colls) == 0, the guard of the two early returns of _calc_force
IsEmpty(colls) == Len(colls) = 0

\* act_force * new_orientation
Times(act_force, v) ==
    [v EXCEPT !.x = act_force * v.x, !.y = act_force * v.y, !.z = act_force * v.z]

Baeuerle2020__calc_force(slf, coll, other_coll) ==
    LET colls_in_vision_pos ==
            get_colloids_in_vision(coll, other_coll, slf.vision_half_angle,
                                   slf.detection_radius_position)
        com == MeanOf(colls_in_vision_pos, "pos")
        to_com == ToCom(com, coll.pos)
        to_com_angle == angle_from_vector(to_com)
        colls_in_vision_orientation ==
            get_colloids_in_vision(coll, other_coll, slf.vision_half_angle,
                                   slf.detection_radius_orientation)
        mean_orientation_in_vision ==
            NormaliseMean(MeanOf(colls_in_vision_orientation, "director"))
        new_angle_choices ==
            <<AnglePlus(to_com_angle, slf.angular_deviation),
              AngleMinus(to_com_angle, slf.angular_deviation)>>
        new_orientation_choices ==
            <<vector_from_angle(new_angle_choices[1]), vector_from_angle(new_angle_choices[2])>>
        angle_deviations ==
            <<DotVec(new_orientation_choices[1], mean_orientation_in_vision),
              DotVec(new_orientation_choices[2], mean_orientation_in_vision)>>
        new_orientation ==
            new_orientation_choices[ArgMin2(angle_deviations[1], angle_deviations[2]) + 1]
    IN  IF IsEmpty(colls_in_vision_pos) THEN Zeros3
        ELSE IF IsEmpty(colls_in_vision_orientation) THEN Zeros3
        ELSE Times(slf.act_force, new_orientation)

Baeuerle2020_calc_force(slf, coll, other_coll) == Baeuerle2020__calc_force(slf, coll, other_coll)

\* force / np.linalg.norm(force);  0 / 0 is nan
DivideByNorm(force) ==
    [nan |-> force.nan \/ Len2(force) = 0,
     x |-> force.x, y |-> force.y, z |-> force.z, d2 |-> Len2(force)]

Baeuerle2020_calc_new_direction(slf, coll, other_coll) ==
    DivideByNorm(Baeuerle2020__calc_force(slf, coll, other_coll))

DetectionRadii == {2, 3}

\* angular deviations as rays: 0, atan2(4, 3) (0.927 rad) and pi / 2
AngularDeviations == {<<1, 0>>, <<3, 4>>, <<0, 1>>}

BaeuerleParams ==
    [act_force : ActForces,
     detection_radius_position : DetectionRadii,
     detection_radius_orientation : DetectionRadii,
     vision_half_angle : ConeAngles,
     angular_deviation : AngularDeviations]

CallBaeuerleCalcForce ==
    /\ pc = "ready"
    /\ \E slf \in BaeuerleParams :
          /\ self' = slf
          /\ result' = Baeuerle2020_calc_force(slf, colloid, other_colloids)
    /\ op' = "Baeuerle2020.calc_force"
    /\ pc' = "returned"
    /\ UNCHANGED <<sceneVars, mlVars, mdVars>>

CallBaeuerleCalcNewDirection ==
    /\ pc = "ready"
    /\ \E slf \in BaeuerleParams :
          /\ self' = slf
          /\ result' = Baeuerle2020_calc_new_direction(slf, colloid, other_colloids)
    /\ op' = "Baeuerle2020.calc_new_direction"
    /\ pc' = "returned"
    /\ UNCHANGED <<sceneVars, mlVars, mdVars>>

ForceNext == CallLavergneCalcForce \/ CallBaeuerleCalcForce

ForceSpec == SceneInit /\ [][ForceNext]_vars

DirectionNext == CallBaeuerleCalcNewDirection

DirectionSpec == SceneInit /\ [][DirectionNext]_vars

---------------------------------------------------------------------------
(* MLModel *)

\* Action(force=..., torque=...); torques in units of 0.1, absent fields zero
translate == [force |-> 10, torque |-> <<0, 0, 0>>]
rotate_clockwise == [force |-> 0, torque |-> <<0, 0, 1>>]
rotate_counter_clockwise == [force |-> 0, torque |-> <<0, 0, -1>>]
do_nothing == [force |-> 0, torque |-> <<0, 0, 0>>]

\* list(self.actions): the keys of the dict in insertion order
ActionKeys == <<"RotateClockwise", "Translate", "RotateCounterClockwise", "DoNothing">>

\* self.actions[key]
ActionTable(key) ==
    CASE key = "RotateClockwise" -> rotate_clockwise
      [] key = "Translate" -> translate
      [] key = "RotateCounterClockwise" -> rotate_counter_clockwise
      [] key = "DoNothing" -> do_nothing

\* a lookup that takes the keys in alphabetical order
SelectActionSorted(action_idx) ==
    ActionTable(<<"DoNothing", "RotateClockwise", "RotateCounterClockwise",
                  "Translate">>[action_idx + 1])

\* self.actions[list(self.actions)[action_idx.item()]]
SelectAction(action_idx) == ActionTable(ActionKeys[action_idx + 1])

\* a filter that compares the colloids' values instead of the objects
OthersByValue(colls, c) ==
    SelectSeq(colls, LAMBDA o : o.pos # c.pos \/ o.director # c.director)

\* [c for c in colloids if c is not colloid]
OthersOf(colls, c) == SelectSeq(colls, LAMBDA o : o.obj # c.obj)

\* Categorical(softmax(logits)).sample() over one logit per entry of the table
ActionIndices == 0 .. (Len(ActionKeys) - 1)

ColloidStates ==
    {[pos |-> <<0, 0, 0>>, director |-> <<1, 0, 0>>],
     [pos |-> <<1, 0, 0>>, director |-> <<1, 0, 0>>]}

\* lists of distinct colloid objects; two objects may hold the same state
ColloidLists ==
    UNION {{[k \in 1 .. n |-> [obj |-> k, pos |-> st[k].pos, director |-> st[k].director]] :
                st \in [1 .. n -> ColloidStates]} :
           n \in 0 .. MaxColloids}

MLInit ==
    /\ pc = "ready"
    /\ op = "none"
    /\ self = <<>>
    /\ result = <<>>
    /\ colloid = <<>> /\ other_colloids = <<>>
    /\ colloids \in ColloidLists
    /\ actions = <<>> /\ cursor = 0 /\ calls = <<>> /\ sampled = <<>>
    /\ runner = <<>> /\ harness = <<>>

\* calc_action is entered: actions = [] and the loop starts
EnterCalcAction ==
    /\ pc = "ready"
    /\ pc' = "loop"
    /\ op' = "MLModel.calc_action"
    /\ actions' = <<>>
    /\ cursor' = 1
    /\ UNCHANGED <<self, result, sceneVars, colloids, calls, sampled, mdVars>>

\* one pass of the loop body, for colloids[cursor]
LoopBody ==
    /\ pc = "loop"
    /\ cursor <= Len(colloids)
    /\ LET c == colloids[cursor]
           others == OthersOf(colloids, c)
       IN  /\ calls' = Append(calls, [colloid |-> c, other_colloids |-> others])
           /\ \E action_idx \in ActionIndices :
                 /\ sampled' = Append(sampled, action_idx)
                 /\ actions' = Append(actions, SelectAction(action_idx))
    /\ cursor' = cursor + 1
    /\ UNCHANGED <<pc, op, self, result, sceneVars, colloids, mdVars>>

\* return actions
ReturnActions ==
    /\ pc = "loop"
    /\ cursor > Len(colloids)
    /\ result' = actions
    /\ pc' = "returned"
    /\ UNCHANGED <<op, self, sceneVars, mlVars, mdVars>>

MLNext == EnterCalcAction \/ LoopBody \/ ReturnActions

MLSpec == MLInit /\ [][MLNext]_vars

---------------------------------------------------------------------------
(* EspressoMD.integrate, as the engine test fixes it: "write_interval ==      *)
(* time_slice -> one output per slice; writing happens before integrating".   *)
(* Times are counted in units of time_step.                                   *)

\* time_slice / time_step of the engine test (0.1 s / 0.05 s)
SliceSteps == 2

\* get_particle_data() and system.time, as one record
Snapshot(r) == [pos |-> r.pos, vel |-> r.vel, time |-> r.time]

\* the trajectory output: a record is appended when the system time has reached
\* write_interval * write_idx
WriteIfDue(r) ==
    IF r.time >= r.write_interval * r.write_idx
    THEN [r EXCEPT !.traj = Append(r.traj, Snapshot(r)), !.write_idx = r.write_idx + 1]
    ELSE r

\* system.integrator.run(steps_per_slice) under the constant force f of the
\* force model (overdamped motion at zero temperature, unit friction)
RunSlice(r, f) ==
    [r EXCEPT !.vel = f, !.pos = r.pos + f * SliceSteps, !.time = r.time + SliceSteps]

\* a slice that integrates first and writes afterwards
IntegrateThenWrite(r, f) == WriteIfDue(RunSlice(r, f))

\* one time slice of integrate: write, then integrate
OneSlice(r, f) == RunSlice(WriteIfDue(r), f)

ConstForces == {1, 2}

MDInit ==
    /\ pc = "ready"
    /\ op = "none"
    /\ self = <<>>
    /\ result = <<>>
    /\ colloid = <<>> /\ other_colloids = <<>>
    /\ colloids = <<>> /\ actions = <<>> /\ cursor = 0 /\ calls = <<>> /\ sampled = <<>>
    /\ \E wi \in {SliceSteps, 2 * SliceSteps} :
          runner = [time |-> 0, pos |-> 0, vel |-> 0, write_idx |-> 0, traj |-> <<>>,
                    write_interval |-> wi]
    /\ harness = [n_left |-> 0, force |-> 0, done |-> 0, ns |-> <<>>, seen |-> <<>>]

\* runner.integrate(n_slices, force_model) is called
CallIntegrate ==
    /\ pc = "ready"
    /\ \E n_slices \in 1 .. MaxSlices, f \in ConstForces :
          /\ harness.done + n_slices <= MaxSlices
          /\ harness' = [harness EXCEPT !.n_left = n_slices, !.force = f,
                                        !.ns = Append(harness.ns, n_slices)]
    /\ pc' = "integrating"
    /\ op' = "EspressoMD.integrate"
    /\ UNCHANGED <<self, result, sceneVars, mlVars, runner>>

\* one pass of the loop over the slices
IntegrateSlice ==
    /\ pc = "integrating"
    /\ harness.n_left > 0
    /\ runner' = OneSlice(runner, harness.force)
    /\ harness' = [harness EXCEPT !.n_left = harness.n_left - 1, !.done = harness.done + 1]
    /\ UNCHANGED <<pc, op, self, result, sceneVars, mlVars>>

\* integrate returns; the caller reads get_particle_data() and system.time
ReturnIntegrate ==
    /\ pc = "integrating"
    /\ harness.n_left = 0
    /\ harness' = [harness EXCEPT !.seen = Append(harness.seen, Snapshot(runner))]
    /\ pc' = "ready"
    /\ UNCHANGED <<op, self, result, sceneVars, mlVars, runner>>

MDNext == CallIntegrate \/ IntegrateSlice \/ ReturnIntegrate

MDSpec == MDInit /\ [][MDNext]_vars

---------------------------------------------------------------------------
(* HarmonicTrap, as the integration test fixes it.  Positions and forces are  *)
(* counted in tenths.                                                         *)

\* the force on one colloid
TrapForce(slf, pos) ==
    <<slf.stiffness * (slf.center[1] - pos[1]),
      slf.stiffness * (slf.center[2] - pos[2]),
      slf.stiffness * (slf.center[3] - pos[3])>>

\* a trap that pulls towards the origin whatever its center
TrapForceNoCenter(slf, batch) ==
    [k \in 1 .. Len(batch) |->
        <<-slf.stiffness * batch[k][1], -slf.stiffness * batch[k][2],
          -slf.stiffness * batch[k][3]>>]

\* HarmonicTrap.__call__ on a batch of positions
HarmonicTrap(slf, batch) == [k \in 1 .. Len(batch) |-> TrapForce(slf, batch[k])]

\* cls.colloids of the integration test
TestColloids == <<<<0, 0, 0>>, <<10, 30, 79>>, <<-36, 32, -1>>>>

\* `actual` of the integration test
TestActual == <<<<0, 0, 0>>, <<-100, -300, -790>>, <<360, -320, 10>>>>

TrapPositions == {<<0, 0, 0>>, <<10, 30, 79>>, <<-36, 32, -1>>, <<10, 0, 0>>}

TrapInit ==
    /\ pc = "ready"
    /\ op = "none"
    /\ self \in [stiffness : {1, 10}, center : {<<0, 0, 0>>, <<10, 0, 0>>}]
    /\ result = <<>>
    /\ colloid = <<>> /\ other_colloids = <<>>
    /\ colloids \in UNION {[1 .. n -> TrapPositions] : n \in 0 .. MaxColloids}
    /\ actions = <<>> /\ cursor = 0 /\ calls = <<>> /\ sampled = <<>>
    /\ runner = <<>> /\ harness = <<>>

CallHarmonicTrap ==
    /\ pc = "ready"
    /\ result' = HarmonicTrap(self, colloids)
    /\ op' = "HarmonicTrap"
    /\ pc' = "returned"
    /\ UNCHANGED <<self, sceneVars, mlVars, mdVars>>

TrapNext == CallHarmonicTrap

TrapSpec == TrapInit /\ [][TrapNext]_vars

---------------------------------------------------------------------------
(* What the claims say, stated on the inputs without the code's steps *)

\* displacement from the observer c to the colloid o
ClaimDisp(c, o) == Sub(o.pos, c.pos)

\* the distance from c to o is strictly less than r
ClaimWithin(c, o, r) == r = Inf \/ Norm2(ClaimDisp(c, o)) < r * r

\* the angle between the displacement and the director of c is strictly less
\* than theta:  cos(angle) = d.u / (|d| |u|) > cos(theta);  a zero displacement
\* makes no angle
ClaimAngleBelow(c, o, theta) ==
    LET d == ClaimDisp(c, o)
    IN  /\ Norm2(d) > 0
        /\ RootGT(Dot(d, c.director), Norm2(d) * Norm2(c.director), theta.num, theta.den2)

\* the colloids of others that c sees, in their original order
ClaimSeen(c, others, theta, r) ==
    SelectSeq(others, LAMBDA o : ClaimWithin(c, o, r) /\ ClaimAngleBelow(c, o, theta))

Returned(name) == pc = "returned" /\ op = name

\* C2: get_colloids_in_vision returns exactly the colloids of other_coll whose
\* distance is strictly less than vision_range and whose angle to the director
\* is strictly less than vision_half_angle, in their original order, each once.
C2_VisionFilter ==
    Returned("get_colloids_in_vision") =>
        /\ result = ClaimSeen(colloid, other_colloids, self.vision_half_angle, self.vision_range)
        /\ \A i, j \in 1 .. Len(result) : i # j => result[i].id # result[j].id

\* a call that keeps the second colloid and drops the first, which lies in the
\* cone and exactly on the range threshold
C2_Witness ==
    /\ Returned("get_colloids_in_vision")
    /\ Len(other_colloids) = 2
    /\ Len(result) = 1
    /\ result[1].id = 2
    /\ self.vision_range # Inf
    /\ Norm2(ClaimDisp(colloid, other_colloids[1])) = self.vision_range * self.vision_range
    /\ ClaimAngleBelow(colloid, other_colloids[1], self.vision_half_angle)

RECURSIVE ClaimPerception(_, _, _)
\* the sum of 1 / (2 * pi * distance) over seen, in units of 1 / (2 * pi * PScale)
ClaimPerception(c, seen, k) ==
    IF k > Len(seen) THEN 0
    ELSE PerceptionTerm(Norm2(ClaimDisp(c, seen[k]))) + ClaimPerception(c, seen, k + 1)

\* act_force times the normalised director of c
ClaimPush(act_force, c) ==
    [nan |-> FALSE, x |-> act_force * c.director[1], y |-> act_force * c.director[2],
     z |-> act_force * c.director[3], d2 |-> Norm2(c.director)]

\* C3: Lavergne2019.calc_force returns act_force times the normalised director
\* when the perception over the vision cone is >= perception_threshold, and the
\* zero vector otherwise.
C3_LavergneForce ==
    Returned("Lavergne2019.calc_force") =>
        LET seen == ClaimSeen(colloid, other_colloids, self.vision_half_angle, Inf)
        IN  IF ClaimPerception(colloid, seen, 1) >= self.perception_threshold
            THEN SameVec(result, ClaimPush(self.act_force, colloid))
            ELSE SameVec(result, Zeros3)

\* a colloid whose perception equals a positive threshold and that is pushed
C3_Witness ==
    /\ Returned("Lavergne2019.calc_force")
    /\ self.perception_threshold > 0
    /\ self.act_force > 0
    /\ ClaimPerception(colloid,
                       ClaimSeen(colloid, other_colloids, self.vision_half_angle, Inf), 1)
          = self.perception_threshold
    /\ ~SameVec(result, Zeros3)

\* the colloids seen within detection_radius_position / _orientation
ClaimSeenPos ==
    ClaimSeen(colloid, other_colloids, self.vision_half_angle, self.detection_radius_position)

ClaimSeenOri ==
    ClaimSeen(colloid, other_colloids, self.vision_half_angle, self.detection_radius_orientation)

\* Baeuerle2020.calc_force returns zero when nothing is seen within one of the radii
ClaimBaeuerleIdle ==
    (Returned("Baeuerle2020.calc_force") /\ (Len(ClaimSeenPos) = 0 \/ Len(ClaimSeenOri) = 0))
        => SameVec(result, Zeros3)

ClaimConeEmpty == Len(ClaimSeen(colloid, other_colloids, self.vision_half_angle, Inf)) = 0

\* C6 as stated: with nothing seen Baeuerle2020.calc_force returns zero, and so
\* does Lavergne2019.calc_force on an empty vision cone, whatever its parameters.
C6_Original ==
    /\ ClaimBaeuerleIdle
    /\ (Returned("Lavergne2019.calc_force") /\ ClaimConeEmpty) => SameVec(result, Zeros3)

\* C6 amended: with nothing seen Baeuerle2020.calc_force returns zero, and so does
\* Lavergne2019.calc_force on an empty vision cone when its perception_threshold
\* is positive.
C6_Amended ==
    /\ ClaimBaeuerleIdle
    /\ (Returned("Lavergne2019.calc_force") /\ ClaimConeEmpty /\ self.perception_threshold > 0)
          => SameVec(result, Zeros3)

\* Baeuerle2020 sees a colloid within the position radius but none within the
\* orientation radius and returns zero, with a non-zero act_force
C6_Witness ==
    /\ Returned("Baeuerle2020.calc_force")
    /\ self.act_force > 0
    /\ Len(ClaimSeenPos) > 0
    /\ Len(ClaimSeenOri) = 0
    /\ SameVec(result, Zeros3)

RECURSIVE ClaimSum(_, _, _)
ClaimSum(seen, field, k) ==
    IF k > Len(seen) THEN <<0, 0, 0>>
    ELSE Add(IF field = "pos" THEN seen[k].pos ELSE seen[k].director,
             ClaimSum(seen, field, k + 1))

\* the bearing from the colloid to the centre of mass of ClaimSeenPos, as a ray:
\* n * (com - pos) = sum - n * pos;  the bearing of a zero displacement is 0
ClaimBearing ==
    LET s == ClaimSum(ClaimSeenPos, "pos", 1)
        n == Len(ClaimSeenPos)
        bx == s[1] - n * colloid.pos[1]
        by == s[2] - n * colloid.pos[2]
    IN  IF bx = 0 /\ by = 0 THEN <<1, 0>> ELSE <<bx, by>>

\* the ray r rotated by sgn * dev
ClaimRotate(r, dev, sgn) ==
    <<r[1] * dev[1] - sgn * r[2] * dev[2], r[2] * dev[1] + sgn * r[1] * dev[2]>>

\* n times the mean director of ClaimSeenOri
ClaimMeanDirector == ClaimSum(ClaimSeenOri, "director", 1)

\* the ray v lies at a strictly smaller angle to the mean director than the ray w
\* (no angle is smaller than another when the mean director is zero)
ClaimCloser(v, w) ==
    LET m == ClaimMeanDirector
    IN  /\ Norm2(m) > 0
        /\ RootGT(v[1] * m[1] + v[2] * m[2], v[1] * v[1] + v[2] * v[2],
                  w[1] * m[1] + w[2] * m[2], w[1] * w[1] + w[2] * w[2])

ClaimPlus == ClaimRotate(ClaimBearing, self.angular_deviation, 1)

ClaimMinus == ClaimRotate(ClaimBearing, self.angular_deviation, -1)

ClaimChosen == IF ClaimCloser(ClaimMinus, ClaimPlus) THEN ClaimMinus ELSE ClaimPlus

\* act_force times the unit vector along the ray r, in the xy plane
ClaimAlong(act_force, r) ==
    [nan |-> FALSE, x |-> act_force * r[1], y |-> act_force * r[2], z |-> 0,
     d2 |-> r[1] * r[1] + r[2] * r[2]]

\* C7: with a colloid seen within each radius, Baeuerle2020.calc_force returns a
\* force of magnitude act_force with zero z-component along the bearing to the
\* centre of mass rotated by +angular_deviation or -angular_deviation, whichever
\* is closer in angle to the mean director, the + rotation on a tie.
C7_BaeuerleForce ==
    (Returned("Baeuerle2020.calc_force") /\ Len(ClaimSeenPos) > 0 /\ Len(ClaimSeenOri) > 0) =>
        /\ ~result.nan
        /\ result.d2 > 0
        /\ Len2(result) = self.act_force * self.act_force * result.d2
        /\ result.z = 0
        /\ SameVec(result, ClaimAlong(self.act_force, ClaimChosen))

\* the two radii see different colloids, the - rotation is strictly closer to the
\* mean director and is the one returned
C7_Witness ==
    /\ Returned("Baeuerle2020.calc_force")
    /\ self.act_force > 0
    /\ Len(ClaimSeenPos) > 0
    /\ Len(ClaimSeenOri) > Len(ClaimSeenPos)
    /\ ClaimCloser(ClaimMinus, ClaimPlus)
    /\ SameVec(result, ClaimAlong(self.act_force, ClaimMinus))
    /\ ~SameVec(result, ClaimAlong(self.act_force, ClaimPlus))

\* a tie between the two rotations, which differ, resolved to the + rotation
C7_TieReached ==
    /\ Returned("Baeuerle2020.calc_force")
    /\ self.act_force > 0
    /\ Len(ClaimSeenPos) > 0 /\ Len(ClaimSeenOri) > 0
    /\ Norm2(ClaimMeanDirector) > 0
    /\ ~ClaimCloser(ClaimMinus, ClaimPlus) /\ ~ClaimCloser(ClaimPlus, ClaimMinus)
    /\ ~SameVec(ClaimAlong(1, ClaimPlus), ClaimAlong(1, ClaimMinus))

\* C9: Baeuerle2020.calc_new_direction returns a well-defined vector of unit
\* length for every colloid configuration and every constructor parameter.
C9_UnitDirection ==
    Returned("Baeuerle2020.calc_new_direction") =>
        /\ ~result.nan
        /\ result.d2 > 0
        /\ Len2(result) = result.d2

\* the four fixed actions, by the index the Categorical draws
ClaimAction(idx) ==
    CASE idx = 0 -> [force |-> 0, torque |-> <<0, 0, 1>>]
      [] idx = 1 -> [force |-> 10, torque |-> <<0, 0, 0>>]
      [] idx = 2 -> [force |-> 0, torque |-> <<0, 0, -1>>]
      [] idx = 3 -> [force |-> 0, torque |-> <<0, 0, 0>>]

\* C1: MLModel.calc_action returns one Action per input colloid, the i-th being
\* the one chosen for the i-th colloid, each one of the four fixed actions; an
\* empty list yields an empty list.
C1_OneActionPerColloid ==
    Returned("MLModel.calc_action") =>
        /\ Len(result) = Len(colloids)
        /\ Len(sampled) = Len(colloids)
        /\ \A k \in 1 .. Len(colloids) :
              /\ result[k] = ClaimAction(sampled[k])
              /\ result[k] \in {ClaimAction(n) : n \in 0 .. 3}
        /\ colloids = <<>> => result = <<>>

\* a full list, answered with different actions for the first and last colloid
C1_Witness ==
    /\ Returned("MLModel.calc_action")
    /\ Len(colloids) = MaxColloids
    /\ Len(result) = MaxColloids
    /\ sampled[1] = 1 /\ sampled[MaxColloids] = 2
    /\ result[1] # result[MaxColloids]

\* the list s without its k-th entry
ClaimWithout(s, k) == [n \in 1 .. (Len(s) - 1) |-> IF n < k THEN s[n] ELSE s[n + 1]]

\* C8: in one call of calc_action the observable is computed once per colloid,
\* in list order, with that colloid and all the other colloids of the list in
\* their original order: n - 1 others, never the colloid itself.
C8_ObservableCalls ==
    Returned("MLModel.calc_action") =>
        /\ Len(calls) = Len(colloids)
        /\ \A k \in 1 .. Len(colloids) :
              /\ calls[k].colloid = colloids[k]
              /\ calls[k].other_colloids = ClaimWithout(colloids, k)
              /\ Len(calls[k].other_colloids) = Len(colloids) - 1
              /\ \A n \in 1 .. Len(calls[k].other_colloids) :
                    calls[k].other_colloids[n].obj # colloids[k].obj

\* a call on a list in which two distinct colloids hold the same state
C8_Witness ==
    /\ Returned("MLModel.calc_action")
    /\ Len(colloids) = MaxColloids
    /\ Len(calls) = MaxColloids
    /\ colloids[1].pos = colloids[2].pos
    /\ colloids[1].director = colloids[2].director
    /\ colloids[MaxColloids].pos # colloids[1].pos

\* C4: with write_interval equal to time_slice, integrate writes exactly one
\* trajectory record per time slice, before the slice is integrated: after
\* integrate(n) followed by integrate(1) the last record equals the particle state
\* and system time observed immediately after integrate(n).
C4_WriteBeforeIntegrate ==
    (op = "EspressoMD.integrate" /\ runner.write_interval = SliceSteps) =>
        /\ Len(runner.traj) = harness.done
        /\ (pc = "ready" /\ Len(harness.seen) >= 2 /\ harness.ns[Len(harness.ns)] = 1) =>
              runner.traj[Len(runner.traj)] = harness.seen[Len(harness.seen) - 1]

\* integrate(n) with n > 1 followed by integrate(1), after which the particles
\* have moved on from the last record
C4_Witness ==
    /\ op = "EspressoMD.integrate"
    /\ pc = "ready"
    /\ runner.write_interval = SliceSteps
    /\ Len(harness.ns) = 2
    /\ harness.ns[1] > 1 /\ harness.ns[2] = 1
    /\ Len(harness.seen) = 2
    /\ runner.traj[Len(runner.traj)] = harness.seen[1]
    /\ runner.traj[Len(runner.traj)] # Snapshot(runner)

\* C5: HarmonicTrap on a batch returns, for each colloid independently and in
\* input order, the force -stiffness * (position - center); a colloid at the
\* center gets the zero force.
C5_TrapForces ==
    Returned("HarmonicTrap") =>
        /\ Len(result) = Len(colloids)
        /\ \A k \in 1 .. Len(colloids) :
              /\ \A n \in 1 .. 3 :
                    result[k][n] = -self.stiffness * (colloids[k][n] - self.center[n])
              /\ colloids[k] = self.center => result[k] = <<0, 0, 0>>
        /\ (colloids = TestColloids /\ self.stiffness = 10 /\ self.center = <<0, 0, 0>>)
              => result = TestActual

\* a batch with a colloid at a center away from the origin, and one elsewhere
C5_Witness ==
    /\ Returned("HarmonicTrap")
    /\ Len(colloids) >= 2
    /\ self.center # <<0, 0, 0>>
    /\ colloids[1] = self.center
    /\ result[1] = <<0, 0, 0>>
    /\ result[2] # <<0, 0, 0>>

===========================================================================
